---- MODULE Spec2Model ----
(***************************************************************************)
(* LaunchPage: the rotation and boosted-slot interleaving of the launch    *)
(* listing (src/unnamed/part_000).  The page keeps the loaded launches,    *)
(* derives the regular / boosted / premium pools from them, rotates the    *)
(* regular and the boosted pool by the current 10-minute epoch and renders *)
(* the rotated regular pool with the rotated boosted pool spliced in.      *)
(*                                                                         *)
(* Launch ids are numbers here (the store's ids are opaque strings); the   *)
(* clock counts milliseconds from 0 and the epochs 0..MaxEpoch stand for   *)
(* the epochs of the real clock: a rotation depends on the epoch only      *)
(* through epoch % poolLength.                                             *)
(***************************************************************************)
EXTENDS Integers, Sequences, FiniteSets, TLC

\* 10 minutes in milliseconds
ROTATION_INTERVAL == 600000

PAGE_SIZE == 10

\* bounds of the model
MaxPrimary == 6
MaxBoosted == 7
MaxPremium == 1
MaxEpoch == 7
\* bounds of the page with its timers and its pagination
MaxCollection == 12
MaxBoostedEvery == 2
MaxPageEpoch == 3
MaxInflight == 2
MaxStore == 21
\* bounds of the calendar computations
MaxDay == 34
MaxWinnerPool == 6
MaxSpread == 2
MaxPattern == 3
\* usernames that no user holds at the start
MaxFreeNames == 1

VARIABLES
    allLaunches,             \* useState<Launch[]>: the loaded launches, supplier order
    rotatedWeeklyLaunches,   \* useState<Launch[]>
    rotatedBoostedLaunches,  \* useState<Launch[]>
    now,                     \* Date.now()
    listItems,               \* the rendered list: insertBoostedLaunches(rotatedWeeklyLaunches)
    listItemsAppend,         \* the same list as the append-at-end version of the page renders it
    collection,              \* the launches of the store, in the order getLaunches pages them
    isLoading,               \* useState(true)
    isLoadingMore,           \* useState(false)
    hasMore,                 \* useState(true)
    lastDocRef,              \* useRef: position of the last document fetched, 0 for null
    inflight,                \* the getLaunches calls awaited
    mounted,                 \* the component is mounted
    closure,                 \* isLoading, isLoadingMore and hasMore of the latest
                             \* committed render: what the sentinel, loadMore and the
                             \* observer's callback are made of
    effectRun,               \* the number of the rotation effect's latest run
    timers,                  \* the timeouts and intervals registered and not cleared
    clock,                   \* new Date(): the local day, counted from 1970-01-01, and the
                             \* millisecond of that day
    datedLaunches,           \* allLaunches with the launchDate and the upvotes of each
    lastWeek,                \* lastWeekStart and lastWeekEnd of the latest memo run
    lastWeekWinners,         \* useMemo: the launches shown as last week's winners
    profileLaunchDate,       \* scheduledLaunchDate of ProfilePage's onSubmit
    adminLaunchDate,         \* scheduledLaunchDate of AdminDashboard's approval
    usernames,               \* Firestore: the documents of the collection usernames
    users,                   \* Firestore: the username field of each users document
    profiles                 \* ProfilePage of each user: userProfile, the form, the
                             \* usernameStatus and the position in handleProfileUpdate

pageVars == <<collection, isLoading, isLoadingMore, hasMore, lastDocRef, inflight, mounted,
              closure, effectRun, timers>>

dateVars == <<clock, datedLaunches, lastWeek, lastWeekWinners, profileLaunchDate,
              adminLaunchDate>>

profileVars == <<usernames, users, profiles>>

sideVars == <<dateVars, profileVars>>

vars == <<allLaunches, rotatedWeeklyLaunches, rotatedBoostedLaunches, now, listItems,
          listItemsAppend, pageVars, sideVars>>

Max(a, b) == IF a >= b THEN a ELSE b
Min(a, b) == IF a <= b THEN a ELSE b

(***************************************************************************)
(* Launches and the pools derived from allLaunches.  listingType "none"    *)
(* is a launch whose listingType field is missing.                         *)
(***************************************************************************)
Launch(id, listingType) == [id |-> id, listingType |-> listingType]

\* the three filters of the memoized pools
FilterPremium(launches) ==
    SelectSeq(launches, LAMBDA launch : launch.listingType = "premium")

FilterBoosted(launches) ==
    SelectSeq(launches, LAMBDA launch : launch.listingType = "boosted")

\* the weekly filter keeps everything that is not boosted
FilterWeeklyNotBoosted(launches) ==
    SelectSeq(launches, LAMBDA launch : launch.listingType # "boosted")

FilterWeekly(launches) ==
    SelectSeq(launches,
              LAMBDA launch : launch.listingType = "none" \/ launch.listingType = "regular")

premiumLaunches == FilterPremium(allLaunches)

boostedLaunches == FilterBoosted(allLaunches)

weeklyLaunches == FilterWeekly(allLaunches)

\* What the supplier returns: nB boosted, nP regular (every second one without a
\* listingType) and nM premium launches, ids 1, 2, ... in supplier order.
Supplied(nP, nB, nM) ==
    [i \in 1..(nB + nP + nM) |->
        IF i <= nB THEN Launch(i, "boosted")
        ELSE IF i <= nB + nP
             THEN Launch(i, IF (i - nB) % 2 = 0 THEN "none" ELSE "regular")
             ELSE Launch(i, "premium")]

(***************************************************************************)
(* Array.prototype.slice and Array.prototype.splice(start, 0, item), with  *)
(* JavaScript's clamping of the indices (0-based).                         *)
(***************************************************************************)
RelativeIndex(length, index) ==
    IF index < 0 THEN Max(length + index, 0) ELSE Min(index, length)

Slice(array, start, end) ==
    LET from == RelativeIndex(Len(array), start)
        to   == RelativeIndex(Len(array), end)
    IN  SubSeq(array, from + 1, to)

SpliceReplace(array, start, item) ==
    LET at == RelativeIndex(Len(array), start)
    IN  SubSeq(array, 1, at) \o <<item>> \o SubSeq(array, at + 2, Len(array))

Splice(array, start, item) ==
    LET at == RelativeIndex(Len(array), start)
    IN  SubSeq(array, 1, at) \o <<item>> \o SubSeq(array, at + 1, Len(array))

(***************************************************************************)
(* Rotation.                                                               *)
(***************************************************************************)
\* the clock read in seconds: the division is by 10 * 60
RotationCountSeconds(currentTime) == currentTime \div 600

\* Math.ceil instead of Math.floor
RotationCountCeil(currentTime) ==
    (currentTime + ROTATION_INTERVAL - 1) \div ROTATION_INTERVAL

\* the epoch: Math.floor(currentTime / ROTATION_INTERVAL)
RotationCount(currentTime) == currentTime \div ROTATION_INTERVAL

\* the modulus is one short of the list length
getCurrentRotationIndexShort(listLength, currentTime) ==
    IF listLength <= 1 THEN 0
    ELSE LET rotationCount == RotationCount(currentTime)
         IN  rotationCount % (listLength - 1)

getCurrentRotationIndex(listLength, currentTime) ==
    IF listLength <= 1 THEN 0
    ELSE LET rotationCount == RotationCount(currentTime)
         IN  rotationCount % listLength

\* the next boundary taken as the one after the current epoch's start
TimeUntilNextRotationFloor(currentTime) ==
    LET nextRotation == (currentTime \div ROTATION_INTERVAL + 1) * ROTATION_INTERVAL
    IN  nextRotation - currentTime

\* nextRotation = Math.ceil(now / ROTATION_INTERVAL) * ROTATION_INTERVAL;
\* timeUntilNextRotation = nextRotation - now
TimeUntilNextRotation(currentTime) ==
    LET nextRotation ==
            ((currentTime + ROTATION_INTERVAL - 1) \div ROTATION_INTERVAL) * ROTATION_INTERVAL
    IN  nextRotation - currentTime

rotateArrayByIndexRight(array, index) ==
    IF Len(array) <= 1 THEN array
    ELSE Slice(array, Len(array) - index, Len(array)) \o Slice(array, 0, Len(array) - index)

rotateArrayByIndex(array, index) ==
    IF Len(array) <= 1 THEN array
    ELSE Slice(array, index, Len(array)) \o Slice(array, 0, index)

(***************************************************************************)
(* uniqueKey: the template strings of insertBoostedLaunches.               *)
(***************************************************************************)
\* array[index] beyond the array is undefined
Undefined == [id |-> -1, listingType |-> "undefined"]

At(array, index) ==
    IF 0 <= index /\ index < Len(array) THEN array[index + 1] ELSE Undefined

\* reading .id of undefined throws; the item that could not be built stands for
\* the TypeError
TypeError == [id |-> -1, listingType |-> "TypeError", uniqueKey |-> ""]

ListItem(launch, uniqueKey) ==
    IF launch = Undefined THEN TypeError
    ELSE [id |-> launch.id, listingType |-> launch.listingType, uniqueKey |-> uniqueKey]

RegularKeyNoEpoch(launch, index) ==
    "weekly-regular-" \o ToString(launch.id) \o "-" \o ToString(index)

RegularKey(launch, index, timestamp) ==
    "weekly-regular-" \o ToString(launch.id) \o "-" \o ToString(index)
        \o "-" \o ToString(timestamp)

BoostedKey(boostedLaunch, index, timestamp) ==
    "weekly-boosted-" \o ToString(boostedLaunch.id) \o "-" \o ToString(index)
        \o "-" \o ToString(timestamp)

\* the key of a remaining boosted launch without its id and its index
RemainingKeyBare(boostedLaunch, boostedIndex, timestamp) ==
    "weekly-boosted-remaining-" \o ToString(timestamp)

RemainingKey(boostedLaunch, boostedIndex, timestamp) ==
    "weekly-boosted-" \o ToString(boostedLaunch.id) \o "-remaining-"
        \o ToString(boostedIndex) \o "-" \o ToString(timestamp)

(***************************************************************************)
(* insertBoostedLaunches.                                                  *)
(***************************************************************************)
\* launches.map(...) of the early return
TagRegular(launches) ==
    [i \in 1..Len(launches) |-> ListItem(launches[i], RegularKeyNoEpoch(launches[i], i - 1))]

Spacing(launchesLength, boostedLength) == Max(launchesLength \div boostedLength, 2)

\* the key carries Date.now() itself
TimestampRaw(currentTime) == currentTime

Timestamp(currentTime) == (currentTime \div ROTATION_INTERVAL) * ROTATION_INTERVAL

\* the boosted cursor is not advanced after a walk insertion
WalkStepNoAdvance(acc, launches, boosted, spacing, index, timestamp) ==
    LET launch == At(launches, index)
        pushed == Append(acc.result, ListItem(launch, RegularKey(launch, index, timestamp)))
    IN  IF (index + 1) % spacing = 0 /\ acc.boostedIndex < Len(boosted)
        THEN LET boostedLaunch == At(boosted, acc.boostedIndex)
             IN  [result |-> Append(pushed,
                                    ListItem(boostedLaunch,
                                             BoostedKey(boostedLaunch, index, timestamp))),
                  boostedIndex |-> acc.boostedIndex]
        ELSE [result |-> pushed, boostedIndex |-> acc.boostedIndex]

\* the slot test counts from index instead of index + 1
WalkStepOffByOne(acc, launches, boosted, spacing, index, timestamp) ==
    LET launch == At(launches, index)
        pushed == Append(acc.result, ListItem(launch, RegularKey(launch, index, timestamp)))
    IN  IF index % spacing = 0 /\ acc.boostedIndex < Len(boosted)
        THEN LET boostedLaunch == At(boosted, acc.boostedIndex)
             IN  [result |-> Append(pushed,
                                    ListItem(boostedLaunch,
                                             BoostedKey(boostedLaunch, index, timestamp))),
                  boostedIndex |-> acc.boostedIndex + 1]
        ELSE [result |-> pushed, boostedIndex |-> acc.boostedIndex]

\* the regular launch is put in front of the result (unshift) instead of pushed
WalkStepUnshift(acc, launches, boosted, spacing, index, timestamp) ==
    LET launch == At(launches, index)
        pushed == <<ListItem(launch, RegularKey(launch, index, timestamp))>> \o acc.result
    IN  IF (index + 1) % spacing = 0 /\ acc.boostedIndex < Len(boosted)
        THEN LET boostedLaunch == At(boosted, acc.boostedIndex)
             IN  [result |-> Append(pushed,
                                    ListItem(boostedLaunch,
                                             BoostedKey(boostedLaunch, index, timestamp))),
                  boostedIndex |-> acc.boostedIndex + 1]
        ELSE [result |-> pushed, boostedIndex |-> acc.boostedIndex]

\* one iteration of launches.forEach((launch, index) => ...)
WalkStep(acc, launches, boosted, spacing, index, timestamp) ==
    LET launch == At(launches, index)
        pushed == Append(acc.result, ListItem(launch, RegularKey(launch, index, timestamp)))
    IN  IF (index + 1) % spacing = 0 /\ acc.boostedIndex < Len(boosted)
        THEN LET boostedLaunch == At(boosted, acc.boostedIndex)
             IN  [result |-> Append(pushed,
                                    ListItem(boostedLaunch,
                                             BoostedKey(boostedLaunch, index, timestamp))),
                  boostedIndex |-> acc.boostedIndex + 1]
        ELSE [result |-> pushed, boostedIndex |-> acc.boostedIndex]

\* the forEach over the first n launches: the result built and the boosted cursor
RECURSIVE Walk(_, _, _, _, _)
Walk(launches, boosted, spacing, n, timestamp) ==
    IF n = 0 THEN [result |-> <<>>, boostedIndex |-> 0]
    ELSE WalkStep(Walk(launches, boosted, spacing, n - 1, timestamp),
                  launches, boosted, spacing, n - 1, timestamp)

\* Math.floor((result.length / (boosted.length - boostedIndex + 1)) * (boostedIndex + 1)).
\* The source computes it in doubles; the double result equals this exact quotient
\* for every boosted pool shorter than 24 (15 / 13 * 13 is the first that rounds
\* below its integer), which covers the bounds here.
InsertIndex(resultLength, boostedLength, boostedIndex) ==
    (resultLength * (boostedIndex + 1)) \div (boostedLength - boostedIndex + 1)

\* the loop runs while boostedIndex <= length: one read past the boosted pool
RECURSIVE DistributeRemainingOverrun(_, _, _, _)
DistributeRemainingOverrun(result, boosted, boostedIndex, timestamp) ==
    IF boostedIndex <= Len(boosted)
    THEN LET insertIndex   == InsertIndex(Len(result), Len(boosted), boostedIndex)
             boostedLaunch == At(boosted, boostedIndex)
         IN  DistributeRemainingOverrun(
                 Splice(result, insertIndex,
                        ListItem(boostedLaunch,
                                 RemainingKey(boostedLaunch, boostedIndex, timestamp))),
                 boosted, boostedIndex + 1, timestamp)
    ELSE result

\* the while loop of the proportional-splice version
RECURSIVE DistributeRemaining(_, _, _, _)
DistributeRemaining(result, boosted, boostedIndex, timestamp) ==
    IF boostedIndex < Len(boosted)
    THEN LET insertIndex   == InsertIndex(Len(result), Len(boosted), boostedIndex)
             boostedLaunch == At(boosted, boostedIndex)
         IN  DistributeRemaining(
                 Splice(result, insertIndex,
                        ListItem(boostedLaunch,
                                 RemainingKey(boostedLaunch, boostedIndex, timestamp))),
                 boosted, boostedIndex + 1, timestamp)
    ELSE result

\* the while loop of the append-at-end version
RECURSIVE AppendRemaining(_, _, _, _)
AppendRemaining(result, boosted, boostedIndex, timestamp) ==
    IF boostedIndex < Len(boosted)
    THEN LET boostedLaunch == At(boosted, boostedIndex)
         IN  AppendRemaining(
                 Append(result,
                        ListItem(boostedLaunch,
                                 RemainingKey(boostedLaunch, boostedIndex, timestamp))),
                 boosted, boostedIndex + 1, timestamp)
    ELSE result

\* the early return maps the boosted pool instead of launches
insertBoostedLaunchesWrongPool(launches, boosted, currentTime) ==
    IF Len(boosted) = 0 \/ Len(launches) = 0
    THEN TagRegular(boosted)
    ELSE LET spacing   == Spacing(Len(launches), Len(boosted))
             timestamp == Timestamp(currentTime)
             walked    == Walk(launches, boosted, spacing, Len(launches), timestamp)
         IN  DistributeRemaining(walked.result, boosted, walked.boostedIndex, timestamp)

\* insertBoostedLaunches(launches) reading rotatedBoostedLaunches and Date.now()
insertBoostedLaunches(launches, boosted, currentTime) ==
    IF Len(boosted) = 0 \/ Len(launches) = 0
    THEN TagRegular(launches)
    ELSE LET spacing   == Spacing(Len(launches), Len(boosted))
             timestamp == Timestamp(currentTime)
             walked    == Walk(launches, boosted, spacing, Len(launches), timestamp)
         IN  DistributeRemaining(walked.result, boosted, walked.boostedIndex, timestamp)

\* insertBoostedLaunches of the version that appends the remaining boosted launches
insertBoostedLaunchesAppend(launches, boosted, currentTime) ==
    IF Len(boosted) = 0 \/ Len(launches) = 0
    THEN TagRegular(launches)
    ELSE LET spacing   == Spacing(Len(launches), Len(boosted))
             timestamp == Timestamp(currentTime)
             walked    == Walk(launches, boosted, spacing, Len(launches), timestamp)
         IN  AppendRemaining(walked.result, boosted, walked.boostedIndex, timestamp)

(***************************************************************************)
(* The page.                                                               *)
(***************************************************************************)
\* the instants the clock takes: the first and the last millisecond of each epoch
Times ==
    {epoch * ROTATION_INTERVAL + offset :
        epoch \in 0..MaxEpoch, offset \in {0, ROTATION_INTERVAL - 1}}

\* the other pages are not open
NoDate == [day |-> 0, ms |-> -1]

IdleDates ==
    /\ clock = [day |-> 0, ms |-> 0]
    /\ datedLaunches = <<>>
    /\ lastWeek = [start |-> NoDate, end |-> NoDate]
    /\ lastWeekWinners = <<>>
    /\ profileLaunchDate = NoDate
    /\ adminLaunchDate = NoDate

IdleProfiles ==
    /\ usernames = <<>>
    /\ users = <<>>
    /\ profiles = <<>>

IdleSide == IdleDates /\ IdleProfiles

\* The launches are loaded and the page has rendered once with the rotated pools
\* still empty; the rotation effect has not run yet.
Init ==
    /\ \E nP \in 0..MaxPrimary, nB \in 0..MaxBoosted, nM \in 0..MaxPremium :
           allLaunches = Supplied(nP, nB, nM)
    /\ now \in Times
    /\ rotatedWeeklyLaunches = <<>>
    /\ rotatedBoostedLaunches = <<>>
    /\ listItems = insertBoostedLaunches(<<>>, <<>>, now)
    /\ listItemsAppend = insertBoostedLaunchesAppend(<<>>, <<>>, now)
    /\ collection = allLaunches
    /\ isLoading = FALSE
    /\ isLoadingMore = FALSE
    /\ hasMore = FALSE
    /\ lastDocRef = Len(allLaunches)
    /\ inflight = {}
    /\ mounted = TRUE
    /\ closure = [isLoading |-> FALSE, isLoadingMore |-> FALSE, hasMore |-> FALSE]
    /\ effectRun = 0
    /\ timers = {}
    /\ IdleSide

\* updateRotations() over the pools its closure holds, and the render its two
\* state updates cause
updateRotations(weekly, boosted) ==
    LET weeklyIndex  == getCurrentRotationIndex(Len(weekly), now)
        boostedIndex == getCurrentRotationIndex(Len(boosted), now)
    IN  /\ rotatedWeeklyLaunches' = rotateArrayByIndex(weekly, weeklyIndex)
        /\ rotatedBoostedLaunches' = rotateArrayByIndex(boosted, boostedIndex)
        /\ listItems' =
               insertBoostedLaunches(rotatedWeeklyLaunches', rotatedBoostedLaunches', now)
        /\ listItemsAppend' =
               insertBoostedLaunchesAppend(rotatedWeeklyLaunches', rotatedBoostedLaunches', now)

\* updateRotations() over the current pools
UpdateRotations ==
    /\ updateRotations(weeklyLaunches, boostedLaunches)
    /\ UNCHANGED <<sideVars, allLaunches, now, pageVars>>

\* the clock moves on to its next instant
Tick ==
    /\ \E later \in Times :
           /\ later > now
           /\ \A t \in Times : t > now => later <= t
           /\ now' = later
    /\ UNCHANGED <<sideVars, allLaunches, rotatedWeeklyLaunches, rotatedBoostedLaunches, listItems,
                   listItemsAppend, pageVars>>

Next == UpdateRotations \/ Tick

Spec == Init /\ [][Next]_vars

(***************************************************************************)
(* The page with its pagination and its timers: the initial fetch, the     *)
(* loadMore handler, the rotation effect with its timeout, its interval    *)
(* and its cleanup, and the unmount.                                       *)
(***************************************************************************)

\* The launches of the store: n of them, every `every`-th one boosted (none
\* when every = 0), a premium one now and then, the others regular, every
\* third of them without a listingType.
Collection(n, every) ==
    [i \in 1..n |->
        Launch(i, IF every > 0 /\ i % every = 0 THEN "boosted"
                  ELSE IF i % 5 = 1 THEN "premium"
                  ELSE IF i % 3 = 0 THEN "none"
                  ELSE "regular")]

\* getLaunches(lastDoc, pageSize): the page that follows the cursor and the
\* cursor of its last launch, null (0) when the page is empty
getLaunches(lastDoc, pageSize) ==
    LET launches == SubSeq(collection, lastDoc + 1,
                           Min(lastDoc + pageSize, Len(collection)))
    IN  [launches    |-> launches,
         lastVisible |-> IF Len(launches) = 0 THEN 0 ELSE lastDoc + Len(launches)]

\* the instants of the page's clock
PageTimes == {t \in Times : RotationCount(t) <= MaxPageEpoch}

\* premiumLaunches.map(...) of the render: the premium listings with their keys
premiumListings ==
    [i \in 1..Len(premiumLaunches) |->
        [id         |-> premiumLaunches[i].id,
         listingType |-> premiumLaunches[i].listingType,
         uniqueKey  |-> "premium-" \o ToString(premiumLaunches[i].id)]]

\* a render that follows a state update which leaves the rotated pools alone
Rerender ==
    /\ listItems' =
           insertBoostedLaunches(rotatedWeeklyLaunches, rotatedBoostedLaunches, now)
    /\ listItemsAppend' =
           insertBoostedLaunchesAppend(rotatedWeeklyLaunches, rotatedBoostedLaunches, now)
    /\ UNCHANGED <<rotatedWeeklyLaunches, rotatedBoostedLaunches>>

\* the timeout the effect registers: it fires at the next epoch boundary, and
\* its callback holds the pools of the launches loaded when the effect ran
InitialTimeout(run, loaded) ==
    [effect   |-> run,
     kind     |-> "timeout",
     due      |-> now + TimeUntilNextRotation(now),
     snapshot |-> Len(loaded)]

\* what the effect's cleanup leaves registered: clearTimeout(initialTimeout)
Cleanup(registered, run) ==
    {t \in registered : ~(t.effect = run /\ t.kind = "timeout")}

\* The rotation effect re-runs because the pools changed: the cleanup of its
\* previous run, the initial update, the new timeout.
RotationEffect(loaded) ==
    /\ updateRotations(FilterWeekly(loaded), FilterBoosted(loaded))
    /\ effectRun' = effectRun + 1
    /\ timers' = Cleanup(timers, effectRun) \cup {InitialTimeout(effectRun + 1, loaded)}

\* the launches a timer's callback holds in its closure
ClosureLaunches(timer) == SubSeq(allLaunches, 1, timer.snapshot)

\* the timer after its callback ran: the timeout's callback registers the
\* interval, the interval comes again after ROTATION_INTERVAL
Rearm(timer) ==
    [timer EXCEPT !.kind = "interval", !.due = timer.due + ROTATION_INTERVAL]

\* The component mounts: nothing is loaded, fetchInitialLaunches is awaited and
\* the rotation effect has run once over the empty pools.
InitPage ==
    /\ \E n \in 0..MaxCollection, every \in 0..MaxBoostedEvery :
           collection = Collection(n, every)
    /\ now \in {t \in PageTimes : RotationCount(t) = 0}
    /\ allLaunches = <<>>
    /\ rotatedWeeklyLaunches = <<>>
    /\ rotatedBoostedLaunches = <<>>
    /\ listItems = insertBoostedLaunches(<<>>, <<>>, now)
    /\ listItemsAppend = insertBoostedLaunchesAppend(<<>>, <<>>, now)
    /\ isLoading = TRUE
    /\ isLoadingMore = FALSE
    /\ hasMore = TRUE
    /\ lastDocRef = 0
    /\ inflight = {[call |-> "initial", lastDoc |-> 0, seq |-> 0]}
    /\ mounted = TRUE
    /\ closure = [isLoading |-> TRUE, isLoadingMore |-> FALSE, hasMore |-> TRUE]
    /\ effectRun = 1
    /\ timers = {InitialTimeout(1, <<>>)}
    /\ IdleSide

\* The render a state update schedules is queued at once: it commits before an
\* awaited getLaunches call settles, before a timer fires, before the clock moves
\* on and before the component unmounts. Only the observer's callback may come in
\* between, which is the case LoadMore has to stand.
Rendered ==
    [isLoading |-> isLoading, isLoadingMore |-> isLoadingMore, hasMore |-> hasMore]

RenderCommitted == mounted => closure = Rendered

\* the awaited getLaunches of fetchInitialLaunches settles, with a page or with
\* an error; the state updates of an unmounted component do nothing
FetchInitialLaunches(fetch, ok) ==
    /\ fetch \in inflight
    /\ fetch.call = "initial"
    /\ RenderCommitted
    /\ inflight' = inflight \ {fetch}
    /\ LET page == getLaunches(fetch.lastDoc, PAGE_SIZE)
       IN  /\ lastDocRef' = IF ok THEN page.lastVisible ELSE lastDocRef
           /\ IF mounted /\ ok
              THEN /\ allLaunches' = page.launches
                   /\ hasMore' = (page.lastVisible # 0)
                   /\ isLoading' = FALSE
                   /\ RotationEffect(page.launches)
              ELSE /\ isLoading' = IF mounted THEN FALSE ELSE isLoading
                   /\ Rerender
                   /\ UNCHANGED <<allLaunches, hasMore, effectRun, timers>>
    /\ UNCHANGED <<sideVars, collection, isLoadingMore, mounted, closure, now>>

\* a number that no awaited call carries
FreeSeq == CHOOSE n \in 0..Cardinality(inflight) : \A fetch \in inflight : fetch.seq # n

\* The observer's callback calls loadMore(), which runs up to its await. The
\* sentinel is there when the latest committed render had the list and hasMore;
\* the callback and loadMore test isLoadingMore and hasMore as their closures
\* hold them, from that render.
LoadMore ==
    /\ mounted
    /\ ~closure.isLoading
    /\ closure.hasMore /\ ~closure.isLoadingMore
    /\ ~(closure.isLoadingMore \/ ~closure.hasMore)
    /\ Cardinality(inflight) < MaxInflight
    /\ isLoadingMore' = TRUE
    /\ inflight' = inflight \cup {[call |-> "more", lastDoc |-> lastDocRef, seq |-> FreeSeq]}
    /\ Rerender
    /\ UNCHANGED <<sideVars, allLaunches, collection, isLoading, hasMore, lastDocRef, mounted,
                   closure, effectRun, timers, now>>

\* The render scheduled by the state updates commits: loadMore is created anew and
\* the observer effect re-runs with the callback that holds the new values.
ObserverEffect ==
    /\ mounted
    /\ closure # Rendered
    /\ closure' = Rendered
    /\ UNCHANGED <<sideVars, allLaunches, rotatedWeeklyLaunches, rotatedBoostedLaunches, listItems,
                   listItemsAppend, collection, isLoading, isLoadingMore, hasMore,
                   lastDocRef, inflight, mounted, effectRun, timers, now>>

\* loadMore() from its await on: the page is appended, or the error is logged
LoadMoreSettles(fetch, ok) ==
    /\ fetch \in inflight
    /\ fetch.call = "more"
    /\ RenderCommitted
    /\ inflight' = inflight \ {fetch}
    /\ LET page == getLaunches(fetch.lastDoc, PAGE_SIZE)
       IN  /\ lastDocRef' = IF ok THEN page.lastVisible ELSE lastDocRef
           /\ IF mounted /\ ok
              THEN /\ hasMore' = IF Len(page.launches) < PAGE_SIZE THEN FALSE ELSE hasMore
                   /\ allLaunches' = allLaunches \o page.launches
                   /\ isLoadingMore' = FALSE
                   /\ RotationEffect(allLaunches')
              ELSE /\ isLoadingMore' = IF mounted THEN FALSE ELSE isLoadingMore
                   /\ Rerender
                   /\ UNCHANGED <<allLaunches, hasMore, effectRun, timers>>
    /\ UNCHANGED <<sideVars, collection, isLoading, mounted, closure, now>>

\* a timer comes due and its callback runs: updateRotations() over the pools of
\* its closure (the state updates of an unmounted component do nothing), and
\* the timeout's callback registers the interval
TimerFire(timer) ==
    /\ timer \in timers
    /\ timer.due = now
    /\ RenderCommitted
    /\ IF mounted
       THEN updateRotations(FilterWeekly(ClosureLaunches(timer)),
                            FilterBoosted(ClosureLaunches(timer)))
       ELSE UNCHANGED <<rotatedWeeklyLaunches, rotatedBoostedLaunches, listItems,
                        listItemsAppend>>
    /\ timers' = (timers \ {timer}) \cup {Rearm(timer)}
    /\ UNCHANGED <<sideVars, allLaunches, collection, isLoading, isLoadingMore, hasMore, lastDocRef,
                   inflight, mounted, closure, effectRun, now>>

\* the clock moves on to its next instant, once the timers due have fired
PageTick ==
    /\ \A timer \in timers : timer.due > now
    /\ RenderCommitted
    /\ \E later \in PageTimes :
           /\ later > now
           /\ \A t \in PageTimes : t > now => later <= t
           /\ now' = later
    /\ UNCHANGED <<sideVars, allLaunches, rotatedWeeklyLaunches, rotatedBoostedLaunches, listItems,
                   listItemsAppend, pageVars>>

\* the component unmounts: the cleanup of the effect's latest run
Unmount ==
    /\ mounted
    /\ RenderCommitted
    /\ mounted' = FALSE
    /\ timers' = Cleanup(timers, effectRun)
    /\ UNCHANGED <<sideVars, allLaunches, rotatedWeeklyLaunches, rotatedBoostedLaunches, listItems,
                   listItemsAppend, collection, isLoading, isLoadingMore, hasMore,
                   lastDocRef, inflight, closure, effectRun, now>>

FetchInitialSettles == \E fetch \in inflight, ok \in BOOLEAN : FetchInitialLaunches(fetch, ok)

LoadMoreDone == \E fetch \in inflight, ok \in BOOLEAN : LoadMoreSettles(fetch, ok)

SomeTimerFires == \E timer \in timers : TimerFire(timer)

\* the observer's callback comes between two committed renders
LoadMoreCommitted == RenderCommitted /\ LoadMore

\* The page with its clock, its timers and its unmount; the observer's callback is
\* taken between committed renders only, SpecLoad has it at any moment.
NextPage ==
    \/ FetchInitialSettles
    \/ LoadMoreCommitted
    \/ ObserverEffect
    \/ LoadMoreDone
    \/ SomeTimerFires
    \/ PageTick
    \/ Unmount

SpecPage == InitPage /\ [][NextPage]_vars

\* The loading of the page alone, over stores of up to MaxStore launches that
\* answer every call, with the observer's callback coming at any moment, before
\* the render of the latest state update too.
InitLoad ==
    /\ \E n \in 0..MaxStore, every \in 0..MaxBoostedEvery :
           collection = Collection(n, every)
    /\ now \in {t \in PageTimes : RotationCount(t) = 0}
    /\ allLaunches = <<>>
    /\ rotatedWeeklyLaunches = <<>>
    /\ rotatedBoostedLaunches = <<>>
    /\ listItems = insertBoostedLaunches(<<>>, <<>>, now)
    /\ listItemsAppend = insertBoostedLaunchesAppend(<<>>, <<>>, now)
    /\ isLoading = TRUE
    /\ isLoadingMore = FALSE
    /\ hasMore = TRUE
    /\ lastDocRef = 0
    /\ inflight = {[call |-> "initial", lastDoc |-> 0, seq |-> 0]}
    /\ mounted = TRUE
    /\ closure = [isLoading |-> TRUE, isLoadingMore |-> FALSE, hasMore |-> TRUE]
    /\ effectRun = 1
    /\ timers = {InitialTimeout(1, <<>>)}
    /\ IdleSide

FetchInitialSucceeds == \E fetch \in inflight : FetchInitialLaunches(fetch, TRUE)

LoadMoreSucceeds == \E fetch \in inflight : LoadMoreSettles(fetch, TRUE)

NextLoad ==
    \/ FetchInitialSucceeds
    \/ LoadMore
    \/ ObserverEffect
    \/ LoadMoreSucceeds

SpecLoad == InitLoad /\ [][NextLoad]_vars

(***************************************************************************)
(* Properties of the interleaver and of the rotation.  P and B are the     *)
(* lengths of the two pools the interleaver was handed.                    *)
(***************************************************************************)
Ids(items) == [i \in 1..Len(items) |-> items[i].id]

IsBoosted(item) == item.listingType = "boosted"

BoostedOf(items) == SelectSeq(items, IsBoosted)

PrimaryOf(items) == SelectSeq(items, LAMBDA item : ~IsBoosted(item))

StripKey(items) == [i \in 1..Len(items) |-> Launch(items[i].id, items[i].listingType)]

P == Len(rotatedWeeklyLaunches)

B == Len(rotatedBoostedLaunches)

InputIds == {rotatedWeeklyLaunches[i].id : i \in 1..P} \cup {rotatedBoostedLaunches[i].id : i \in 1..B}

EveryInputIdOnce(items) ==
    /\ \A id \in InputIds : Cardinality({i \in 1..Len(items) : items[i].id = id}) = 1
    /\ \A i \in 1..Len(items) : items[i].id \in InputIds

NoAdjacentBoosted(items) ==
    \A i \in 1..(Len(items) - 1) : ~(IsBoosted(items[i]) /\ IsBoosted(items[i + 1]))

\* the walk has a slot for every boosted launch
WalkPlacesAll == B >= 1 /\ B * Max(P \div B, 2) <= P

\* some boosted launch of the list was placed by the fallback step
\* (the walk placed fewer than B)
FallbackRan == P >= 1 /\ B >= 1 /\ B * Max(P \div B, 2) > P

\* C1: for every pair of pools, an empty primary or boosted pool included, the
\* interleaver's output is as long as the two pools together.
C1_LengthIsSum ==
    /\ Len(listItems) = P + B
    /\ Len(listItemsAppend) = P + B

\* C2: with an empty primary pool and a non-empty boosted pool the interleaver
\* returns all the boosted launches in their given order.
C2_EmptyPrimaryReturnsBoosted ==
    (P = 0 /\ B >= 1) => Ids(listItems) = Ids(rotatedBoostedLaunches)

\* C3: with an empty boosted pool the interleaver returns exactly the primary
\* launches in their given order, a uniqueKey attached to each.
C3_EmptyBoostedReturnsPrimary ==
    B = 0 => /\ StripKey(listItems) = rotatedWeeklyLaunches
             /\ StripKey(listItemsAppend) = rotatedWeeklyLaunches

C3_Witness ==
    /\ B = 0
    /\ P = 3
    /\ rotatedWeeklyLaunches[1] = weeklyLaunches[2]
    /\ Ids(listItems) = Ids(rotatedWeeklyLaunches)
    /\ listItems[3].uniqueKey = RegularKeyNoEpoch(weeklyLaunches[1], 2)

\* C4: when both pools are non-empty the output holds every primary id and every
\* boosted id exactly once, with the proportional-splice fallback and with the
\* append-at-end fallback, also when the boosted pool outnumbers the slots.
C4_EveryIdExactlyOnce ==
    (P >= 1 /\ B >= 1) => /\ EveryInputIdOnce(listItems)
                          /\ EveryInputIdOnce(listItemsAppend)

C4_Witness ==
    /\ P = 3
    /\ B = 5
    /\ Len(listItems) = 8
    /\ Len(BoostedOf(listItems)) = 5
    /\ EveryInputIdOnce(listItems)
    /\ \E t \in Times :
           listItems[2].uniqueKey = RemainingKey(rotatedBoostedLaunches[2], 1, Timestamp(t))
    /\ EveryInputIdOnce(listItemsAppend)

\* C5 as stated: for every non-empty primary pool and every boosted pool of two or
\* more, no two boosted launches are in consecutive positions of the output.
C5_NoAdjacentBoosted ==
    (P >= 1 /\ B >= 2) => /\ NoAdjacentBoosted(listItems)
                          /\ NoAdjacentBoosted(listItemsAppend)

\* C5 amended: no two boosted launches are in consecutive positions of the output
\* when the walk has a slot for every boosted launch (B * spacing <= P).
C5_NoAdjacentWhenWalkPlacesAll ==
    (B >= 2 /\ WalkPlacesAll) => /\ NoAdjacentBoosted(listItems)
                                 /\ NoAdjacentBoosted(listItemsAppend)

C5_Witness ==
    /\ P = 6
    /\ B = 3
    /\ Len(listItems) = 9
    /\ IsBoosted(listItems[3]) /\ IsBoosted(listItems[6]) /\ IsBoosted(listItems[9])
    /\ NoAdjacentBoosted(listItems)

\* C6: whenever the primary pool is non-empty the first element of the output is
\* a primary launch (the first of the rotated primary pool).
C6_FirstIsPrimary ==
    P >= 1 => /\ ~IsBoosted(listItems[1])
              /\ listItems[1].id = rotatedWeeklyLaunches[1].id

\* C7: the primary launches appear in the output in the order of the rotated
\* primary pool, after the walk and after the fallback insertions.
C7_PrimaryOrderPreserved ==
    /\ StripKey(PrimaryOf(listItems)) = rotatedWeeklyLaunches
    /\ StripKey(PrimaryOf(listItemsAppend)) = rotatedWeeklyLaunches

C7_Witness ==
    /\ P = 3
    /\ B = 5
    /\ FallbackRan
    /\ IsBoosted(listItems[2])
    /\ Ids(PrimaryOf(listItems)) = Ids(rotatedWeeklyLaunches)
    /\ rotatedWeeklyLaunches[1] = weeklyLaunches[3]

\* C8: the boosted launches appear in the output in the order of the rotated
\* boosted pool, those placed by the proportional-splice fallback included.
C8_BoostedOrderPreserved ==
    (P >= 1 /\ B >= 1) => Ids(BoostedOf(listItems)) = Ids(rotatedBoostedLaunches)

\* C9: when the walk has a slot for every boosted launch, the j-th boosted launch
\* stands right behind the (j * spacing)-th primary launch, it carries the key of a
\* walk insertion (the fallback inserts nothing), and everything else is primary.
C9_WalkPlacement ==
    WalkPlacesAll =>
        LET spacing == Max(P \div B, 2)
            Placed(items) ==
                /\ Len(items) = P + B
                /\ \A j \in 1..B :
                       /\ items[j * spacing + j - 1].id = rotatedWeeklyLaunches[j * spacing].id
                       /\ items[j * spacing + j].id = rotatedBoostedLaunches[j].id
                       /\ \E t \in Times :
                              items[j * spacing + j].uniqueKey =
                                  BoostedKey(rotatedBoostedLaunches[j], j * spacing - 1,
                                             Timestamp(t))
                /\ Len(BoostedOf(items)) = B
        IN  Placed(listItems) /\ Placed(listItemsAppend)

C9_Witness ==
    /\ P = 6
    /\ B = 2
    /\ Ids(listItems) =
           <<rotatedWeeklyLaunches[1].id, rotatedWeeklyLaunches[2].id,
             rotatedWeeklyLaunches[3].id, rotatedBoostedLaunches[1].id,
             rotatedWeeklyLaunches[4].id, rotatedWeeklyLaunches[5].id,
             rotatedWeeklyLaunches[6].id, rotatedBoostedLaunches[2].id>>
    /\ rotatedWeeklyLaunches = weeklyLaunches
    /\ rotatedBoostedLaunches = boostedLaunches

\* out is seq rotated left by the index the code computes for currentTime, and
\* that index is epoch % Len(seq): out is a cyclic permutation of seq
IsLeftRotation(seq, out, currentTime) ==
    LET n      == Len(seq)
        epoch  == currentTime \div ROTATION_INTERVAL
        offset == getCurrentRotationIndex(n, currentTime)
    IN  /\ Len(out) = n
        /\ n <= 1 => out = seq
        /\ n >= 2 => /\ offset = epoch % n
                     /\ 0 <= offset /\ offset < n
                     /\ \A i \in 1..n : out[i] = seq[((i - 1 + epoch) % n) + 1]
                     /\ out = SubSeq(seq, offset + 1, n) \o SubSeq(seq, 1, offset)
        /\ \A i \in 1..n : Cardinality({k \in 1..n : out[k] = seq[i]}) = 1

\* C10: a rotation update leaves each pool equal to itself when it has at most one
\* launch and otherwise rotated left by offset = epoch % n, 0 <= offset < n: a
\* cyclic permutation holding every launch exactly once.
C10_RotateIsLeftRotation ==
    [][UpdateRotations =>
           /\ IsLeftRotation(weeklyLaunches, rotatedWeeklyLaunches', now)
           /\ IsLeftRotation(boostedLaunches, rotatedBoostedLaunches', now)]_vars

C10_Witness ==
    /\ P = 5
    /\ B = 1
    /\ rotatedWeeklyLaunches[1] = weeklyLaunches[4]
    /\ rotatedWeeklyLaunches[5] = weeklyLaunches[3]
    /\ rotatedBoostedLaunches = boostedLaunches

(***************************************************************************)
(* Properties of the epoch, of the fairness cycle and of determinism.      *)
(***************************************************************************)
\* instants inside the current epoch: its first milliseconds, its middle, its last
SampleTimes ==
    {RotationCount(now) * ROTATION_INTERVAL + offset :
        offset \in {0, 1, 2, 299999, 300000, 599998, 599999}}

\* seq rotated left by r, position by position
LeftRotation(seq, r) == [i \in 1..Len(seq) |-> seq[((i - 1 + r) % Len(seq)) + 1]]

\* C11: for a pool of n >= 2 launches and any starting epoch e, the rotations of the
\* n consecutive epochs e .. e+n-1 are all the n rotations of the pool, each once,
\* so every launch holds every position (the top one too) in exactly one of them.
C11_FairnessCycle ==
    \A pool \in {weeklyLaunches, boostedLaunches} :
        LET n == Len(pool)
            e == RotationCount(now)
            RotationAt(k) ==
                rotateArrayByIndex(
                    pool, getCurrentRotationIndex(n, (e + k) * ROTATION_INTERVAL))
        IN  n >= 2 =>
                /\ \A j, k \in 0..(n - 1) : j # k => RotationAt(j) # RotationAt(k)
                /\ {RotationAt(k) : k \in 0..(n - 1)} =
                       {LeftRotation(pool, r) : r \in 0..(n - 1)}
                /\ \A pos \in 1..n, i \in 1..n :
                       Cardinality({k \in 0..(n - 1) : RotationAt(k)[pos] = pool[i]}) = 1

C11_Witness ==
    /\ P = 4
    /\ B = 3
    /\ RotationCount(now) = 6
    /\ rotatedWeeklyLaunches = LeftRotation(weeklyLaunches, 2)
    /\ rotatedBoostedLaunches = LeftRotation(boostedLaunches, 0)
    /\ listItems[1].id = weeklyLaunches[3].id

\* C12: the ordering is a function of the two pools and the epoch only: whatever
\* was displayed before, the list a rotation update renders equals the list that
\* rotate + interleave give for the same pools at any other instant of the epoch.
C12_OrderingDependsOnEpochOnly ==
    [][UpdateRotations =>
           \A t \in SampleTimes :
               LET weekly  == rotateArrayByIndex(
                                  weeklyLaunches,
                                  getCurrentRotationIndex(Len(weeklyLaunches), t))
                   boosted == rotateArrayByIndex(
                                  boostedLaunches,
                                  getCurrentRotationIndex(Len(boostedLaunches), t))
               IN  /\ rotatedWeeklyLaunches' = weekly
                   /\ rotatedBoostedLaunches' = boosted
                   /\ listItems' = insertBoostedLaunches(weekly, boosted, t)
                   /\ listItemsAppend' = insertBoostedLaunchesAppend(weekly, boosted, t)]_vars

C12_Witness ==
    /\ now = 3 * ROTATION_INTERVAL + (ROTATION_INTERVAL - 1)
    /\ P = 5
    /\ B = 2
    /\ rotatedWeeklyLaunches = LeftRotation(weeklyLaunches, 3)
    /\ listItems[1].uniqueKey =
           RegularKey(weeklyLaunches[4], 0, 3 * ROTATION_INTERVAL)

\* C17: the epoch of t is floor(t / INTERVAL); it does not decrease with t, and
\* the epoch of t + INTERVAL is the epoch of t plus one.
C17_EpochAdvancesByInterval ==
    /\ \A t \in SampleTimes \cup {now} :
           /\ RotationCount(t) * ROTATION_INTERVAL <= t
           /\ t < (RotationCount(t) + 1) * ROTATION_INTERVAL
           /\ RotationCount(t + ROTATION_INTERVAL) = RotationCount(t) + 1
    /\ \A t, u \in SampleTimes \cup {v + ROTATION_INTERVAL : v \in SampleTimes} :
           t <= u => RotationCount(t) <= RotationCount(u)

C17_Witness ==
    /\ now = 5 * ROTATION_INTERVAL + (ROTATION_INTERVAL - 1)
    /\ RotationCount(now) = 5
    /\ RotationCount(now + 1) = 6
    /\ P = 6
    /\ rotatedWeeklyLaunches = LeftRotation(weeklyLaunches, 5)

\* C18 as stated: for every time t the epochs of t and of t + INTERVAL - 1 are equal.
C18_SameEpochWithinInterval ==
    \A t \in SampleTimes : RotationCount(t) = RotationCount(t + ROTATION_INTERVAL - 1)

\* C18 amended: the epochs of t and of t + INTERVAL - 1 are equal for every t that
\* is an epoch boundary (a multiple of INTERVAL).
C18_SameEpochFromBoundary ==
    \A t \in SampleTimes :
        t % ROTATION_INTERVAL = 0 =>
            RotationCount(t) = RotationCount(t + ROTATION_INTERVAL - 1)

C18_Witness ==
    /\ now = 2 * ROTATION_INTERVAL
    /\ RotationCount(now) = 2
    /\ RotationCount(now + ROTATION_INTERVAL - 1) = 2
    /\ P = 3
    /\ rotatedWeeklyLaunches = LeftRotation(weeklyLaunches, 2)

\* C20: rotate and interleave raise no error and end for every combination of pool
\* sizes: no read beyond an array (no item stands for a TypeError, no rotated
\* launch is undefined), the output is bounded by the two pools, and the branch
\* that divides by the boosted length is not taken with an empty boosted pool.
C20_NoErrorForAnyPoolSizes ==
    /\ \A i \in 1..Len(listItems) : listItems[i] # TypeError
    /\ \A i \in 1..Len(listItemsAppend) : listItemsAppend[i] # TypeError
    /\ \A i \in 1..P : rotatedWeeklyLaunches[i] # Undefined
    /\ \A i \in 1..B : rotatedBoostedLaunches[i] # Undefined
    /\ Len(listItems) <= P + B
    /\ Len(listItemsAppend) <= P + B
    /\ B = 0 => /\ listItems = TagRegular(rotatedWeeklyLaunches)
                /\ listItemsAppend = TagRegular(rotatedWeeklyLaunches)

C20_Witness ==
    /\ P = 1
    /\ B = 7
    /\ Len(listItems) = 8
    /\ \A i \in 1..8 : listItems[i] # TypeError
    /\ Len(listItemsAppend) = 8

\* C19: for every time, the delay until the next rotation,
\* ceil(now / INTERVAL) * INTERVAL - now, is an integer with 0 <= delay < INTERVAL,
\* now + delay is a multiple of INTERVAL, and the delay is 0 exactly when now is
\* itself an epoch boundary.
C19_MillisUntilNextEpoch ==
    \A t \in SampleTimes :
        LET delay == TimeUntilNextRotation(t)
        IN  /\ delay \in Nat
            /\ delay < ROTATION_INTERVAL
            /\ (t + delay) % ROTATION_INTERVAL = 0
            /\ (delay = 0 <=> t % ROTATION_INTERVAL = 0)

\* the effect ran in the last millisecond of an epoch and its timeout is due one
\* millisecond later, at the boundary
C19_Witness ==
    /\ now % ROTATION_INTERVAL = ROTATION_INTERVAL - 1
    /\ \E timer \in timers :
           /\ timer.kind = "timeout"
           /\ timer.effect = effectRun
           /\ timer.due = now + 1
           /\ timer.due = now + TimeUntilNextRotation(now)

\* the rotated pools on display are those of the loaded pools at the current epoch
DisplayedIsCurrent ==
    /\ rotatedWeeklyLaunches =
           LeftRotation(weeklyLaunches, RotationCount(now) % Max(Len(weeklyLaunches), 1))
    /\ rotatedBoostedLaunches =
           LeftRotation(boostedLaunches, RotationCount(now) % Max(Len(boostedLaunches), 1))

IsPrefix(short, long) ==
    /\ Len(short) <= Len(long)
    /\ SubSeq(long, 1, Len(short)) = short

\* C13: when loadMore appends a page to the loaded launches within an epoch whose
\* rotation is on display, the launches already displayed keep their positions and
\* the new ones appear only after them: the list displayed before is a prefix of the
\* list displayed after.
C13_StableUnderPagination ==
    [][(LoadMoreDone /\ mounted /\ DisplayedIsCurrent /\ Len(allLaunches') > Len(allLaunches))
           => IsPrefix(Ids(listItems), Ids(listItems'))]_vars

\* C14: the cleanup of the rotation effect, whenever it runs, leaves no timeout and
\* no interval of the effect's run registered.
C14_CleanupLeavesNoTimer ==
    [][Unmount => \A timer \in timers' : timer.effect # effectRun]_vars

\* C15: whatever the number of times the rotation effect re-ran, at most one timer
\* (timeout or interval) calling updateRotations is registered.
C15_AtMostOneTimer == mounted => Cardinality(timers) <= 1

\* C16: while the page is subscribed, each run of the rotation callback happens at
\* an epoch boundary and leaves on display the pools rotated by the current epoch.
C16_CallbackShowsCurrentRotation ==
    [][(SomeTimerFires /\ mounted)
           => /\ now % ROTATION_INTERVAL = 0
              /\ rotatedWeeklyLaunches' =
                     LeftRotation(weeklyLaunches,
                                  RotationCount(now) % Max(Len(weeklyLaunches), 1))
              /\ rotatedBoostedLaunches' =
                     LeftRotation(boostedLaunches,
                                  RotationCount(now) % Max(Len(boostedLaunches), 1))]_vars

\* the splices of the proportional-splice while loop: the index computed for each
\* and the length of the result at that moment
RECURSIVE FallbackSplices(_, _, _)
FallbackSplices(resultLength, boostedLength, boostedIndex) ==
    IF boostedIndex < boostedLength
    THEN {[insertIndex  |-> InsertIndex(resultLength, boostedLength, boostedIndex),
           resultLength |-> resultLength,
           boostedIndex |-> boostedIndex]}
         \cup FallbackSplices(resultLength + 1, boostedLength, boostedIndex + 1)
    ELSE {}

\* the splices made for the rotated pools on display
CurrentSplices ==
    IF P = 0 \/ B = 0 THEN {}
    ELSE LET walked == Walk(rotatedWeeklyLaunches, rotatedBoostedLaunches, Spacing(P, B), P,
                            Timestamp(now))
         IN  FallbackSplices(Len(walked.result), B, walked.boostedIndex)

\* C24: in the proportional-splice fallback every computed insertIndex lies within
\* the result built so far: 0 <= insertIndex <= length of the result at the moment
\* of the splice, for all pool sizes.
C24_InsertIndexWithinResult ==
    \A splice \in CurrentSplices :
        0 <= splice.insertIndex /\ splice.insertIndex <= splice.resultLength

KeysDistinct(items) ==
    \A i, j \in 1..Len(items) : i # j => items[i].uniqueKey # items[j].uniqueKey

\* every item is a launch of one of the two pools with its id and its listingType
\* untouched, and the key is not the id
IdentityKept(items) ==
    \A i \in 1..Len(items) :
        /\ \/ \E k \in 1..P : rotatedWeeklyLaunches[k] = Launch(items[i].id, items[i].listingType)
           \/ \E k \in 1..B : rotatedBoostedLaunches[k] = Launch(items[i].id, items[i].listingType)
        /\ items[i].uniqueKey # ToString(items[i].id)

PremiumPositions == {p \in 1..Len(allLaunches) : allLaunches[p].listingType = "premium"}

NoPremiumIn(items) == \A i \in 1..Len(items) : items[i].listingType # "premium"

\* C23: at every epoch and after every pool update the premium list holds every
\* loaded premium launch, in the order of the loaded launches and never rotated,
\* and no premium launch is in the rotated pools or in the interleaved list.
C23_PremiumShownUnrotated ==
    /\ Len(premiumListings) = Cardinality(PremiumPositions)
    /\ \A p \in PremiumPositions :
           premiumListings[Cardinality({q \in PremiumPositions : q <= p})].id
               = allLaunches[p].id
    /\ NoPremiumIn(rotatedWeeklyLaunches)
    /\ NoPremiumIn(rotatedBoostedLaunches)
    /\ NoPremiumIn(listItems)
    /\ NoPremiumIn(listItemsAppend)

\* a second page with a premium launch has been loaded, in a later epoch, and the
\* interleaved list holds launches of both pools
C23_Witness ==
    /\ mounted
    /\ Len(allLaunches) > PAGE_SIZE
    /\ Cardinality(PremiumPositions) >= 2
    /\ RotationCount(now) >= 1
    /\ DisplayedIsCurrent
    /\ P >= 2 /\ B >= 2
    /\ Len(listItems) = P + B
    /\ Ids(premiumListings) = <<1, 11>>

IsRotationOf(out, pool) ==
    /\ Len(out) = Len(pool)
    /\ Len(pool) = 0 \/ \E r \in 0..(Len(pool) - 1) : out = LeftRotation(pool, r)

\* C26: whatever the order of page loads and timer firings, every rotation update
\* (by the effect or by a timer's callback) leaves on display rotations of the
\* latest loaded pools; no callback made for earlier pools puts a rotation of those
\* on display.
C26_DisplayFollowsLatestPools ==
    [][(mounted /\ (SomeTimerFires \/ effectRun' # effectRun))
           => /\ IsRotationOf(rotatedWeeklyLaunches', weeklyLaunches')
              /\ IsRotationOf(rotatedBoostedLaunches', boostedLaunches')]_vars

NoIdTwice(launches) ==
    \A i, j \in 1..Len(launches) : i # j => launches[i].id # launches[j].id

\* C27: at most one getLaunches call of loadMore is awaited at any time, also when
\* the observer's callback comes again before the render that shows isLoadingMore;
\* no page is appended twice, so no id is twice in allLaunches.
C27_OneLoadMoreInFlight ==
    /\ Cardinality({fetch \in inflight : fetch.call = "more"}) <= 1
    /\ NoIdTwice(allLaunches)

\* every launch of the store is among the loaded ones
AllLoaded ==
    \A k \in 1..Len(collection) : \E i \in 1..Len(allLaunches) : allLaunches[i] = collection[k]

\* C28: with a finite store, pagination ends: a loadMore call that succeeds either
\* moves the cursor a whole page on or sets hasMore to false (also for an empty
\* store and for a size that is a multiple of PAGE_SIZE); hasMore, once false,
\* stays false; no fetch is issued while it is false; and when it is false
\* allLaunches holds every launch of the store.
C28_PaginationTerminates ==
    [][/\ ~hasMore => ~hasMore'
       /\ LoadMore => hasMore
       /\ ~hasMore' => AllLoaded'
       /\ \A fetch \in inflight :
              LoadMoreSettles(fetch, TRUE)
                  => \/ ~hasMore'
                     \/ /\ Len(allLaunches') = Len(allLaunches) + PAGE_SIZE
                        /\ lastDocRef' = fetch.lastDoc + PAGE_SIZE]_vars

(***************************************************************************)
(* Dates.  A Date is the local calendar day, counted from 1970-01-01 (a     *)
(* Thursday), and the millisecond of that day; the days of the model lie in *)
(* the months around the epoch.  No daylight-saving change falls in them.   *)
(***************************************************************************)
DayMs == 86400000

\* the first days of November 1969 .. May 1970
MonthStarts == {-61, -31, 0, 31, 59, 90, 120}

MonthStart(day) == CHOOSE m \in MonthStarts : m <= day /\ \A k \in MonthStarts : k <= day => k <= m

Date(day, ms) == [day |-> day, ms |-> ms]

getDay(date) == (date.day + 4) % 7

getDate(date) == date.day - MonthStart(date.day) + 1

\* setDate takes any integer: zero and negative values count back from the first
\* of the month, values past its end run into the next one
setDate(date, dayValue) == [date EXCEPT !.day = MonthStart(date.day) + dayValue - 1]

setHours(date, hours, min, sec, ms) ==
    [date EXCEPT !.ms = ((hours * 60 + min) * 60 + sec) * 1000 + ms]

\* a >= b and a <= b of two Dates compare their time values
DateLeq(a, b) == a.day < b.day \/ (a.day = b.day /\ a.ms <= b.ms)
DateGeq(a, b) == DateLeq(b, a)

\* the times at which new Date() is read
ClockMs == {0, 1, DayMs \div 2, DayMs - 1}

ClockTimes == {Date(day, ms) : day \in 0..MaxDay, ms \in ClockMs}

(***************************************************************************)
(* Last week's winners: the memo of LaunchPage over allLaunches.            *)
(***************************************************************************)
\* upvotes of a launch that has none
NoUpvotes == -1

\* (launch.upvotes || 0)
OrZero(upvotes) == IF upvotes = NoUpvotes \/ upvotes = 0 THEN 0 ELSE upvotes

CompareUpvotesAscending(a, b) == OrZero(a.upvotes) - OrZero(b.upvotes)

\* (a, b) => (b.upvotes || 0) - (a.upvotes || 0)
CompareUpvotes(a, b) == OrZero(b.upvotes) - OrZero(a.upvotes)

\* Array.prototype.sort is stable: an element goes behind every element that the
\* comparator does not put behind it
InsertSorted(sorted, x) ==
    LET behind == {i \in 1..Len(sorted) : CompareUpvotes(sorted[i], x) > 0}
        at     == IF behind = {} THEN Len(sorted) + 1
                  ELSE CHOOSE i \in behind : \A k \in behind : i <= k
    IN  SubSeq(sorted, 1, at - 1) \o <<x>> \o SubSeq(sorted, at, Len(sorted))

RECURSIVE SortByUpvotes(_)
SortByUpvotes(launches) ==
    IF launches = <<>> THEN <<>>
    ELSE InsertSorted(SortByUpvotes(SubSeq(launches, 1, Len(launches) - 1)),
                      launches[Len(launches)])

LastWeekStartThisWeek(today) ==
    setHours(setDate(today, getDate(today) - getDay(today)), 0, 0, 0, 0)

LastWeekStart(today) ==
    setHours(setDate(today, getDate(today) - getDay(today) - 7), 0, 0, 0, 0)

LastWeekEnd(lastWeekStart) ==
    setHours(setDate(lastWeekStart, getDate(lastWeekStart) + 6), 23, 59, 59, 999)

InLastWeek(launch, lastWeekStart, lastWeekEnd) ==
    DateGeq(launch.launchDate, lastWeekStart) /\ DateLeq(launch.launchDate, lastWeekEnd)

RECURSIVE FilterLastWeek(_, _, _)
FilterLastWeek(launches, lastWeekStart, lastWeekEnd) ==
    IF launches = <<>> THEN <<>>
    ELSE LET rest == FilterLastWeek(SubSeq(launches, 1, Len(launches) - 1),
                                    lastWeekStart, lastWeekEnd)
             last == launches[Len(launches)]
         IN  IF InLastWeek(last, lastWeekStart, lastWeekEnd) THEN Append(rest, last) ELSE rest

WinnersOf(launches, lastWeekStart, lastWeekEnd) ==
    Slice(SortByUpvotes(FilterLastWeek(launches, lastWeekStart, lastWeekEnd)), 0, 3)

\* the loaded launches: launch i lies base + (i - 1) * spread days before today, at
\* the first or the last millisecond of its day or at noon
UpvoteRows == << <<5, 5, 7>>, <<NoUpvotes, 0, 3, 0>>, <<7, 5, 5, NoUpvotes, 9>>, <<0, NoUpvotes>> >>

UpvotesOf(i, pattern) ==
    LET row == UpvoteRows[(pattern % Len(UpvoteRows)) + 1]
    IN  row[((i - 1) % Len(row)) + 1]

LaunchMs(i, pattern) ==
    LET k == (i + pattern) % 3
    IN  IF k = 0 THEN 0 ELSE IF k = 1 THEN DayMs - 1 ELSE DayMs \div 2

DatedLaunches(today, n, base, spread, pattern) ==
    [i \in 1..n |-> [id |-> i,
                     launchDate |-> Date(today.day - base - (i - 1) * spread,
                                         LaunchMs(i, pattern)),
                     upvotes |-> UpvotesOf(i, pattern)]]

\* one run of the memo over the launches given
lastWeekWinnersMemo(launches) ==
    LET lastWeekStart == LastWeekStart(clock)
        lastWeekEnd   == LastWeekEnd(lastWeekStart)
    IN  /\ lastWeek' = [start |-> lastWeekStart, end |-> lastWeekEnd]
        /\ lastWeekWinners' = WinnersOf(launches, lastWeekStart, lastWeekEnd)
        /\ datedLaunches' = launches

\* the listing page shows nothing and no timer runs
IdleListing ==
    /\ allLaunches = <<>>
    /\ now = 0
    /\ rotatedWeeklyLaunches = <<>>
    /\ rotatedBoostedLaunches = <<>>
    /\ listItems = <<>>
    /\ listItemsAppend = <<>>
    /\ collection = <<>>
    /\ isLoading = FALSE
    /\ isLoadingMore = FALSE
    /\ hasMore = FALSE
    /\ lastDocRef = 0
    /\ inflight = {}
    /\ mounted = TRUE
    /\ closure = [isLoading |-> FALSE, isLoadingMore |-> FALSE, hasMore |-> FALSE]
    /\ effectRun = 0
    /\ timers = {}

IdleSchedule ==
    /\ profileLaunchDate = NoDate
    /\ adminLaunchDate = NoDate

\* the page mounts at any time; the memo has run over the empty allLaunches
InitWinners ==
    /\ IdleListing
    /\ IdleSchedule
    /\ IdleProfiles
    /\ clock \in ClockTimes
    /\ datedLaunches = <<>>
    /\ lastWeek = [start |-> LastWeekStart(clock), end |-> LastWeekEnd(LastWeekStart(clock))]
    /\ lastWeekWinners = <<>>

\* the first page of launches arrives: allLaunches changes and the memo runs again
LoadLaunches ==
    /\ datedLaunches = <<>>
    /\ \E n \in 1..MaxWinnerPool, base \in 0..1, spread \in 1..MaxSpread,
          pattern \in 0..MaxPattern :
           lastWeekWinnersMemo(DatedLaunches(clock, n, base, spread, pattern))
    /\ UNCHANGED <<allLaunches, rotatedWeeklyLaunches, rotatedBoostedLaunches, now, listItems,
                   listItemsAppend, pageVars, clock, profileLaunchDate, adminLaunchDate,
                   profileVars>>

NextWinners == LoadLaunches

SpecWinners == InitWinners /\ [][NextWinners]_vars

\* the Sunday on which the week of a day begins
WeekStartDay(day) == CHOOSE d \in (day - 6)..day : getDay(Date(d, 0)) = 0

\* C22: the window of lastWeekWinners starts at 00:00:00.000 of the Sunday that
\* began the previous week and ends at 23:59:59.999 of the Saturday after it: it
\* spans seven whole days, ends 1 ms before the current week starts, and does not
\* contain the current time.
C22_LastWeekWindow ==
    /\ lastWeek.start = Date(WeekStartDay(clock.day) - 7, 0)
    /\ getDay(lastWeek.start) = 0
    /\ lastWeek.end = Date(lastWeek.start.day + 6, DayMs - 1)
    /\ getDay(lastWeek.end) = 6
    /\ lastWeek.end.day + 1 = WeekStartDay(clock.day)
    /\ ~(DateGeq(clock, lastWeek.start) /\ DateLeq(clock, lastWeek.end))

\* the memo has run over loaded launches on a Thursday night whose previous week
\* began in the month before
C22_Witness ==
    /\ datedLaunches # <<>>
    /\ getDay(clock) = 4
    /\ clock.ms = DayMs - 1
    /\ getDate(clock) - getDay(clock) - 7 < 0
    /\ lastWeek.start.day < MonthStart(clock.day)
    /\ lastWeek.end.day >= MonthStart(clock.day)

\* the loaded launches whose launchDate lies in the window
InWindow ==
    {i \in 1..Len(datedLaunches) :
        /\ DateLeq(lastWeek.start, datedLaunches[i].launchDate)
        /\ DateLeq(datedLaunches[i].launchDate, lastWeek.end)}

ScoreOf(i) == IF datedLaunches[i].upvotes = NoUpvotes THEN 0 ELSE datedLaunches[i].upvotes

\* how many launches of the window come before launch i: those of a higher score
\* and those of the same score loaded earlier
RankOf(i) ==
    Cardinality({j \in InWindow : ScoreOf(j) > ScoreOf(i) \/ (ScoreOf(j) = ScoreOf(i) /\ j < i)})

\* C21: lastWeekWinners is the first 3 of the launches of the inclusive window in
\* descending order of upvotes, missing upvotes counting as 0 and launches of the
\* same score keeping their order in allLaunches.
C21_TopThreeStable ==
    /\ Len(lastWeekWinners) = Min(3, Cardinality(InWindow))
    /\ \A i \in InWindow : RankOf(i) < 3 => lastWeekWinners[RankOf(i) + 1] = datedLaunches[i]

\* A(5), B(5), C(7) and more launches in the window: [C, A, B]
C21_Witness ==
    /\ Cardinality(InWindow) > 3
    /\ Len(lastWeekWinners) = 3
    /\ lastWeekWinners[1].id = 3 /\ lastWeekWinners[1].upvotes = 7
    /\ lastWeekWinners[2].id = 1 /\ lastWeekWinners[2].upvotes = 5
    /\ lastWeekWinners[3].id = 2 /\ lastWeekWinners[3].upvotes = 5

(***************************************************************************)
(* The launch date of a startup: calculateNextLaunchDate of ProfilePage     *)
(* (on submit) and of AdminDashboard (on approval).                         *)
(***************************************************************************)
ProfilePage_calculateNextLaunchDate(today) ==
    LET nextSunday == setHours(setDate(today, getDate(today) + (7 - getDay(today))), 0, 0, 0, 0)
    IN  IF getDay(today) > 3 THEN setDate(nextSunday, getDate(nextSunday) + 7) ELSE nextSunday

AdminDashboard_calculateNextLaunchDateLate(today) ==
    LET nextSunday == setHours(setDate(today, getDate(today) + (7 - getDay(today))), 0, 0, 0, 0)
    IN  IF getDay(today) > 4 THEN setDate(nextSunday, getDate(nextSunday) + 7) ELSE nextSunday

AdminDashboard_calculateNextLaunchDate(today) ==
    LET nextSunday == setHours(setDate(today, getDate(today) + (7 - getDay(today))), 0, 0, 0, 0)
    IN  IF getDay(today) > 3 THEN setDate(nextSunday, getDate(nextSunday) + 7) ELSE nextSunday

IdleWinners ==
    /\ datedLaunches = <<>>
    /\ lastWeek = [start |-> NoDate, end |-> NoDate]
    /\ lastWeekWinners = <<>>

InitSchedule ==
    /\ IdleListing
    /\ IdleWinners
    /\ IdleProfiles
    /\ clock \in ClockTimes
    /\ profileLaunchDate = NoDate
    /\ adminLaunchDate = NoDate

\* onSubmit of the startup form: scheduledLaunchDate of the new startup
OnSubmit ==
    /\ profileLaunchDate' = ProfilePage_calculateNextLaunchDate(clock)
    /\ UNCHANGED <<allLaunches, rotatedWeeklyLaunches, rotatedBoostedLaunches, now, listItems,
                   listItemsAppend, pageVars, clock, datedLaunches, lastWeek, lastWeekWinners,
                   adminLaunchDate, profileVars>>

\* handleApproveConfirm for a regular listing: scheduledLaunchDate of the startup
Approve ==
    /\ adminLaunchDate' = AdminDashboard_calculateNextLaunchDate(clock)
    /\ UNCHANGED <<allLaunches, rotatedWeeklyLaunches, rotatedBoostedLaunches, now, listItems,
                   listItemsAppend, pageVars, clock, datedLaunches, lastWeek, lastWeekWinners,
                   profileLaunchDate, profileVars>>

NextSchedule == OnSubmit \/ Approve

SpecSchedule == InitSchedule /\ [][NextSchedule]_vars

\* a Sunday at 00:00:00.000 after the current time: the coming one from Sunday to
\* Wednesday, the one a week later from Thursday to Saturday
NextLaunchSunday(scheduled) ==
    /\ getDay(scheduled) = 0
    /\ scheduled.ms = 0
    /\ ~DateLeq(scheduled, clock)
    /\ scheduled.day - clock.day \in 4..10
    /\ scheduled.day - clock.day = IF getDay(clock) <= 3 THEN 7 - getDay(clock)
                                   ELSE 14 - getDay(clock)

\* C29: calculateNextLaunchDate returns a Sunday at 00:00:00.000 strictly after the
\* current time, the coming Sunday from Sunday to Wednesday and the Sunday a week
\* after it from Thursday to Saturday, 4 to 10 calendar days ahead; the copy of
\* AdminDashboard and the copy of ProfilePage return the same date.
C29_NextLaunchDate ==
    /\ profileLaunchDate # NoDate => NextLaunchSunday(profileLaunchDate)
    /\ adminLaunchDate # NoDate => NextLaunchSunday(adminLaunchDate)
    /\ profileLaunchDate # NoDate /\ adminLaunchDate # NoDate
           => profileLaunchDate = adminLaunchDate
    /\ AdminDashboard_calculateNextLaunchDate(clock) = ProfilePage_calculateNextLaunchDate(clock)

\* both pages have scheduled a launch on a Thursday; the date lies ten days ahead
\* in the next month
C29_Witness ==
    /\ getDay(clock) = 4
    /\ profileLaunchDate # NoDate
    /\ adminLaunchDate = profileLaunchDate
    /\ adminLaunchDate.day = clock.day + 10
    /\ MonthStart(adminLaunchDate.day) > MonthStart(clock.day)

(***************************************************************************)
(* Usernames: checkUsername and handleProfileUpdate of ProfilePage, run by   *)
(* two signed-in users against the same Firestore.  A username is typed in   *)
(* lower case or with capitals; documents and profiles hold the lower case.  *)
(***************************************************************************)
Uids == {1, 2}

\* the username each user holds at the start, and the ones nobody holds
NameOf(i) == "name" \o ToString(i)

Usernames == {NameOf(i) : i \in 1..(Cardinality(Uids) + MaxFreeNames)}

\* what a user types into the username field
Typed(name, capitals) == [name |-> name, capitals |-> capitals]

toLowerCase(typed) == typed.name

\* username === userProfile.username compares the strings as typed
SameString(typed, stored) == ~typed.capitals /\ typed.name = stored

\* a usernames document: none, released ({uid: null, username: null}) or held
NoDoc == [uid |-> -1, username |-> ""]
Released == [uid |-> 0, username |-> ""]
Held(uid, name) == [uid |-> uid, username |-> name]

\* query(usernamesRef, where('username', '==', name)): document ids are the lower
\* case names, so at most the document of that id matches
QueryUsername(name) == {n \in Usernames : usernames[n].username = name}

\* isAvailable of checkUsername for the signed-in user
IsAvailable(uid, name) ==
    \A n \in QueryUsername(name) : usernames[n].uid = 0 \/ usernames[n].uid = uid

InitProfiles ==
    /\ IdleListing
    /\ IdleWinners
    /\ IdleSchedule
    /\ clock = Date(0, 0)
    /\ usernames = [n \in Usernames |->
                       IF \E u \in Uids : n = NameOf(u)
                       THEN Held(CHOOSE u \in Uids : n = NameOf(u), n) ELSE NoDoc]
    /\ users = [u \in Uids |-> NameOf(u)]
    /\ profiles = [u \in Uids |-> [userProfile |-> NameOf(u),
                                   username |-> Typed(NameOf(u), FALSE),
                                   isValid |-> TRUE,
                                   pc |-> "idle"]]

UnchangedByProfiles ==
    UNCHANGED <<allLaunches, rotatedWeeklyLaunches, rotatedBoostedLaunches, now, listItems,
                listItemsAppend, pageVars, dateVars>>

\* the user edits the username field; the debounced check has not run yet
TypeUsername(uid, typed) ==
    /\ profiles[uid].pc = "idle"
    /\ profiles[uid].username # typed
    /\ profiles' = [profiles EXCEPT ![uid].username = typed]
    /\ UNCHANGED <<usernames, users>>
    /\ UnchangedByProfiles

\* checkUsername(username) for the value of the field, with its query answered
checkUsername(uid) ==
    LET username == profiles[uid].username
    IN  /\ profiles' = [profiles EXCEPT ![uid].isValid =
                           \/ SameString(username, profiles[uid].userProfile)
                           \/ IsAvailable(uid, toLowerCase(username))]
        /\ UNCHANGED <<usernames, users>>
        /\ UnchangedByProfiles

\* handleProfileUpdate up to its first await
handleProfileUpdate(uid) ==
    LET profile == profiles[uid]
    IN  /\ profile.pc = "idle"
        /\ profile.isValid
        /\ profiles' = [profiles EXCEPT ![uid].pc =
                           IF toLowerCase(profile.username) # profile.userProfile
                           THEN IF profile.userProfile # "" THEN "removeOld" ELSE "addNew"
                           ELSE "setUser"]
        /\ UNCHANGED <<usernames, users>>
        /\ UnchangedByProfiles

\* setDoc(usernames/<old>, {uid: null, username: null})
RemoveOldUsername(uid) ==
    /\ profiles[uid].pc = "removeOld"
    /\ usernames' = [usernames EXCEPT ![profiles[uid].userProfile] = Released]
    /\ profiles' = [profiles EXCEPT ![uid].pc = "addNew"]
    /\ UNCHANGED users
    /\ UnchangedByProfiles

\* setDoc(usernames/<new>, {uid: user.uid, username: <new>})
AddNewUsername(uid) ==
    LET name == toLowerCase(profiles[uid].username)
    IN  /\ profiles[uid].pc = "addNew"
        /\ usernames' = [usernames EXCEPT ![name] = Held(uid, name)]
        /\ profiles' = [profiles EXCEPT ![uid].pc = "setUser"]
        /\ UNCHANGED users
        /\ UnchangedByProfiles

\* setDoc(users/<uid>, updatedProfile, {merge: true}) and setUserProfile
SetUserProfile(uid) ==
    LET name == toLowerCase(profiles[uid].username)
    IN  /\ profiles[uid].pc = "setUser"
        /\ users' = [users EXCEPT ![uid] = name]
        /\ profiles' = [profiles EXCEPT ![uid].userProfile = name, ![uid].pc = "idle"]
        /\ UNCHANGED usernames
        /\ UnchangedByProfiles

TypesUsername == \E uid \in Uids, name \in Usernames, capitals \in BOOLEAN :
                     TypeUsername(uid, Typed(name, capitals))
ChecksUsername == \E uid \in Uids : checkUsername(uid)
SubmitsProfile == \E uid \in Uids : handleProfileUpdate(uid)
RemovesOldUsername == \E uid \in Uids : RemoveOldUsername(uid)
AddsNewUsername == \E uid \in Uids : AddNewUsername(uid)
SetsUserProfile == \E uid \in Uids : SetUserProfile(uid)

NextProfiles ==
    \/ TypesUsername
    \/ ChecksUsername
    \/ SubmitsProfile
    \/ RemovesOldUsername
    \/ AddsNewUsername
    \/ SetsUserProfile

SpecProfiles == InitProfiles /\ [][NextProfiles]_vars

\* no handleProfileUpdate is under way
ProfilesSettled == \A uid \in Uids : profiles[uid].pc = "idle"

\* C30: whenever no profile update is under way, no two users hold the same
\* username in their profiles, and every usernames document that names a user
\* names the one user whose profile holds that username.
C30_UsernamesUnique ==
    ProfilesSettled =>
        /\ \A u, v \in Uids : u # v => users[u] # users[v]
        /\ \A n \in Usernames : usernames[n].uid \in Uids => users[usernames[n].uid] = n
        /\ \A u \in Uids : usernames[users[u]] = Held(u, users[u])

====
